---- MODULE Spec2Model ----
(***************************************************************************)
(* nsbench (src/main.rs): a DNS load generator.  main() spawns `cpus`      *)
(* worker threads (perform_queries), each with a companion "informer"      *)
(* thread that samples the worker's RunDetails once a second, and one      *)
(* aggregating informer thread that merges the samples.  The threads are   *)
(* modelled as interleaved processes.  A step holds one access to a shared *)
(* object (mutex, channel, atomic flag, thread handle) and the thread's    *)
(* own computation around it, with two exceptions that no other thread can *)
(* tell apart from the finer steps: a worker's update of details, which    *)
(* takes the details mutex, writes and drops the guard; and a worker's     *)
(* load of finished = true followed by its store to the informer's stop    *)
(* flag (finished is never reset, so the load gives true just as well at   *)
(* the moment of the store).                                               *)
(*                                                                         *)
(* The atomic flags are modelled as coherent registers (a load returns the *)
(* latest store).  A sleep returns at some point after it was called: its  *)
(* return is a step of the sleeping thread.                                *)
(***************************************************************************)
EXTENDS Integers, Sequences, FiniteSets, TLC

\* ---------------------------------------------------------------- bounds
MaxCpus == 2        \* largest --cpus value explored
MaxTimeSecs == 1    \* the --time-secs value explored besides 0
MaxLookups == 1     \* lookups the workers may start, all together
MaxTicks == 1       \* loop iterations the workers' informers may start, all together
MaxNanos == 2       \* elapsed time of a slow lookup (a fast one takes 0)
MaxNow == 1         \* latest reading of the aggregator's clock, in whole seconds
MaxSamples == 3     \* samples waiting for the aggregator when it starts late
MaxLatency == 10    \* duration in a sample that holds a slow success

Slots == 1..MaxCpus

\* a run with a single worker is explored one lookup and one informer iteration
\* further than a run with several
LookupBudget(n) == IF n = 1 THEN MaxLookups + 1 ELSE MaxLookups
TickBudget(n) == IF n = 1 THEN MaxTicks + 1 ELSE MaxTicks

\* and its aggregator's clock three seconds further
ClockBudget(n) == IF n = 1 THEN MaxNow + 3 ELSE MaxNow

VARIABLES
    cpus,               \* args.cpus
    time_secs,          \* args.time_secs
    cpc,                \* main: position in main()
    spawned,            \* main: handles.len()
    ready,              \* main: iterations of the init_r.recv() loop done
    joined,             \* main: handles joined so far
    init_ch,            \* number of () buffered in (init_s, init_r)
    lock,               \* Mutex<()> `lock`: "free" or "main" (guard mg)
    finished,           \* AtomicBool `finished`
    main_inf_s,         \* main still owns inf_s
    wpc,                \* worker: position in perform_queries
    lookups,            \* lookups begun so far, by all workers
    details,            \* worker: Arc<Mutex<RunDetails>> `details`, the value
    details_lock,       \* worker: that mutex's holder: "none", "worker", "informer"
    informer_finished,  \* worker: AtomicBool `informer_finished_parent`
    ipc,                \* worker's informer: position in its closure
    ticks,              \* informer loop iterations begun so far, by all informers
    inf_ch,             \* messages in flight on (inf_s, inf_r)
    apc,                \* aggregator: position in its closure
    totals,             \* aggregator: totals
    temp_total,         \* aggregator: temp_total
    start,              \* aggregator: start (whole seconds)
    now,                \* aggregator: its latest reading of Instant::now() on line 200
    flushes,            \* aggregator: progress lines written to stderr
    res_ch,             \* messages buffered in (s, r)
    overall,            \* main: overall
    report,             \* main: what the println!s of the report wrote
    completed,          \* history: lookups that returned, per worker
    final_sends,        \* history: RunDetails sent by the worker thread itself, per worker
    sampled,            \* history: successes + failures its informer sent, per worker
    sent,               \* history: samples sent on inf_s
    merged,             \* history: samples the aggregator merged into totals
    received            \* history: the samples the aggregator received, in order

coordVars == <<cpc, spawned, ready, joined, overall, report>>
sharedVars == <<init_ch, lock, finished, main_inf_s, inf_ch, res_ch>>
workerVars == <<wpc, lookups, details, details_lock, informer_finished>>
informerVars == <<ipc, ticks>>
aggVars == <<apc, totals, temp_total, start, now, flushes>>
histVars == <<completed, final_sends, sampled, sent, merged, received>>
inputVars == <<cpus, time_secs>>
vars == <<inputVars, coordVars, sharedVars, workerVars, informerVars, aggVars, histVars>>

\* ------------------------------------------------------------ RunDetails
\* impl Default for RunDetails
Default == [successes |-> 0, failures |-> 0, duration |-> 0]

\* RunDetails::reset
Reset(d) == [d EXCEPT !.successes = 0, !.failures = 0, !.duration = 0]

\* the merge as it would be without the parentheses around the sum
AddAssignUnbracketed(self, rhs) ==
    [duration |-> self.duration + rhs.duration \div 2,
     successes |-> self.successes + rhs.successes,
     failures |-> self.failures + rhs.failures]

\* impl AddAssign<RunDetails> for RunDetails
AddAssign(self, rhs) ==
    [duration |-> (rhs.duration + self.duration) \div 2,
     successes |-> self.successes + rhs.successes,
     failures |-> self.failures + rhs.failures]

Total(d) == d.successes + d.failures

\* ------------------------------------------------------------------ Init
NoReport == [lines |-> 0, rate_nan |-> FALSE, rate |-> 0, requests |-> 0]

Init ==
    /\ cpus \in 0..MaxCpus
    /\ time_secs \in {0, MaxTimeSecs}
    /\ cpc = "lock"
    /\ spawned = 0
    /\ ready = 0
    /\ joined = 0
    /\ init_ch = 0
    /\ lock = "free"
    /\ finished = FALSE
    /\ main_inf_s = TRUE
    /\ wpc = [w \in Slots |-> "unspawned"]
    /\ lookups = 0
    /\ details = [w \in Slots |-> Default]
    /\ details_lock = [w \in Slots |-> "none"]
    /\ informer_finished = [w \in Slots |-> FALSE]
    /\ ipc = [w \in Slots |-> "unspawned"]
    /\ ticks = 0
    /\ inf_ch = <<>>
    /\ apc = "unspawned"
    /\ totals = Default
    /\ temp_total = Default
    /\ start = 0
    /\ now = 0
    /\ flushes = 0
    /\ res_ch = <<>>
    /\ overall = Default
    /\ report = NoReport
    /\ completed = [w \in Slots |-> 0]
    /\ final_sends = [w \in Slots |-> 0]
    /\ sampled = [w \in Slots |-> 0]
    /\ sent = 0
    /\ merged = 0
    /\ received = <<>>

\* ------------------------------------------------------ main (coordinator)
\* line 172: let mg = lock.lock().unwrap()
MainLock ==
    /\ cpc = "lock"
    /\ lock = "free"
    /\ lock' = "main"
    /\ cpc' = IF cpus = 0 THEN "await" ELSE "spawn"
    /\ UNCHANGED <<inputVars, spawned, ready, joined, overall, report, init_ch,
                   finished, main_inf_s, inf_ch, res_ch, workerVars, informerVars,
                   aggVars, histVars>>

\* lines 174-186: one iteration of the spawn loop
SpawnWorker ==
    /\ cpc = "spawn"
    /\ spawned < cpus
    /\ spawned' = spawned + 1
    /\ wpc' = [wpc EXCEPT ![spawned + 1] = "resolver"]
    /\ cpc' = IF spawned + 1 = cpus THEN "await" ELSE "spawn"
    /\ UNCHANGED <<inputVars, ready, joined, overall, report, sharedVars, lookups,
                   details, details_lock, informer_finished, informerVars, aggVars,
                   histVars>>

\* lines 188-190: one init_r.recv(); main keeps init_s, so the channel never
\* disconnects and recv blocks while the buffer is empty
RecvReady ==
    /\ cpc = "await"
    /\ ready < cpus
    /\ init_ch > 0
    /\ init_ch' = init_ch - 1
    /\ ready' = ready + 1
    /\ UNCHANGED <<inputVars, cpc, spawned, joined, overall, report, lock, finished,
                   main_inf_s, inf_ch, res_ch, workerVars, informerVars, aggVars,
                   histVars>>

\* the end of the recv loop as it would be if main did not wait at all
ReadyLoopSkipped == TRUE

\* lines 188-190: the loop `for _ in 0..args.cpus` is over after cpus recv()s
ReadyLoopDone == ready = cpus

\* lines 192-195: the recv loop is over; spawn the aggregating informer, which
\* starts with totals, temp_total and start = Instant::now()
SpawnAggregator ==
    /\ cpc = "await"
    /\ ReadyLoopDone
    /\ apc' = "recv"
    /\ totals' = Default
    /\ temp_total' = Default
    /\ start' = now
    /\ cpc' = "release"
    /\ UNCHANGED <<inputVars, spawned, ready, joined, overall, report, sharedVars,
                   workerVars, informerVars, now, flushes, histVars>>

\* the release as it would be if the flag were stored before the sleep
ReleaseAndStore ==
    /\ cpc = "release"
    /\ lock' = "free"
    /\ finished' = TRUE
    /\ cpc' = "sleep"
    /\ UNCHANGED <<inputVars, spawned, ready, joined, overall, report, init_ch,
                   main_inf_s, inf_ch, res_ch, workerVars, informerVars, aggVars,
                   histVars>>

\* line 217: drop(mg)
Release ==
    /\ cpc = "release"
    /\ lock' = "free"
    /\ cpc' = "sleep"
    /\ UNCHANGED <<inputVars, spawned, ready, joined, overall, report, init_ch,
                   finished, main_inf_s, inf_ch, res_ch, workerVars, informerVars,
                   aggVars, histVars>>

\* lines 219-220: the sleep returns, then finished.store(true)
StoreFinished ==
    /\ cpc = "sleep"
    /\ finished' = TRUE
    /\ cpc' = "join"
    /\ UNCHANGED <<inputVars, spawned, ready, joined, overall, report, init_ch, lock,
                   main_inf_s, inf_ch, res_ch, workerVars, informerVars, aggVars,
                   histVars>>

\* lines 222-224: handle.join() of the next worker returns once that thread ended
JoinWorker ==
    /\ cpc = "join"
    /\ joined < cpus
    /\ wpc[joined + 1] = "done"
    /\ joined' = joined + 1
    /\ UNCHANGED <<inputVars, cpc, spawned, ready, overall, report, sharedVars,
                   workerVars, informerVars, aggVars, histVars>>

\* line 226: drop(inf_s), after the join loop
DropSender ==
    /\ cpc = "join"
    /\ joined = cpus
    /\ main_inf_s' = FALSE
    /\ cpc' = "joinagg"
    /\ UNCHANGED <<inputVars, spawned, ready, joined, overall, report, init_ch, lock,
                   finished, inf_ch, res_ch, workerVars, informerVars, aggVars,
                   histVars>>

\* line 227: informer.join()
JoinAggregator ==
    /\ cpc = "joinagg"
    /\ apc = "done"
    /\ cpc' = "recv"
    /\ UNCHANGED <<inputVars, spawned, ready, joined, overall, report, sharedVars,
                   workerVars, informerVars, aggVars, histVars>>

\* line 229: let overall = r.recv().unwrap()
RecvTotals ==
    /\ cpc = "recv"
    /\ res_ch # <<>>
    /\ overall' = Head(res_ch)
    /\ res_ch' = Tail(res_ch)
    /\ cpc' = "report"
    /\ UNCHANGED <<inputVars, spawned, ready, joined, report, init_ch, lock, finished,
                   main_inf_s, inf_ch, workerVars, informerVars, aggVars, histVars>>

\* line 238: (successes as f64 / (successes + failures) as f64) * 100.0 printed
\* with two decimals, in hundredths of a percent; 0.0 / 0.0 is NaN
RateIsNaN(d) == Total(d) = 0
Rate(d) == IF Total(d) = 0 THEN 0
           ELSE (2 * 10000 * d.successes + Total(d)) \div (2 * Total(d))

\* lines 231-241: the eight println!s.  The last one evaluates the u64 division
\* overall.successes / args.time_secs, which panics on a zero divisor after the
\* first seven lines are out.
Report ==
    /\ cpc = "report"
    /\ IF time_secs = 0
       THEN /\ report' = [lines |-> 7, rate_nan |-> RateIsNaN(overall),
                          rate |-> Rate(overall), requests |-> 0]
            /\ cpc' = "panicked"
       ELSE /\ report' = [lines |-> 8, rate_nan |-> RateIsNaN(overall),
                          rate |-> Rate(overall),
                          requests |-> overall.successes \div time_secs]
            /\ cpc' = "done"
    /\ UNCHANGED <<inputVars, spawned, ready, joined, overall, sharedVars, workerVars,
                   informerVars, aggVars, histVars>>

Main ==
    \/ MainLock \/ SpawnWorker \/ RecvReady \/ SpawnAggregator \/ Release
    \/ StoreFinished \/ JoinWorker \/ DropSender \/ JoinAggregator \/ RecvTotals
    \/ Report

\* ------------------------------------------------- perform_queries (worker)
\* line 82: Resolver::new(..).unwrap() either panics, which ends the thread
\* before anything else of it ran, or returns; lines 84-100 then create details
\* and the stop flag and spawn the informer
NewResolver(w) ==
    /\ wpc[w] = "resolver"
    /\ \/ /\ wpc' = [wpc EXCEPT ![w] = "panicked"]
          /\ UNCHANGED <<details, informer_finished, ipc>>
       \/ /\ wpc' = [wpc EXCEPT ![w] = "init_done"]
          /\ details' = [details EXCEPT ![w] = Default]
          /\ informer_finished' = [informer_finished EXCEPT ![w] = FALSE]
          /\ ipc' = [ipc EXCEPT ![w] = "check"]
    /\ UNCHANGED <<inputVars, coordVars, sharedVars, lookups, details_lock, ticks,
                   aggVars, histVars>>

\* line 102: qc.init_done.send(()) on the sync_channel of capacity cpus
SignalReady(w) ==
    /\ wpc[w] = "init_done"
    /\ init_ch < cpus
    /\ init_ch' = init_ch + 1
    /\ wpc' = [wpc EXCEPT ![w] = "barrier"]
    /\ UNCHANGED <<inputVars, coordVars, lock, finished, main_inf_s, inf_ch, res_ch,
                   lookups, details, details_lock, informer_finished, informerVars,
                   aggVars, histVars>>

\* the barrier as it would be if the worker did not take the mutex
BarrierAlwaysOpen == TRUE

\* line 103: qc.lock.lock() returns only while nobody holds the mutex
BarrierOpen == lock = "free"

\* line 103: drop(qc.lock.lock().unwrap()): take the mutex and give it back
PassBarrier(w) ==
    /\ wpc[w] = "barrier"
    /\ BarrierOpen
    /\ wpc' = [wpc EXCEPT ![w] = "loop"]
    /\ UNCHANGED <<inputVars, coordVars, sharedVars, lookups, details, details_lock,
                   informer_finished, informerVars, aggVars, histVars>>

\* the loop condition as it would be if the loop ignored the flag
LoopForever(f) == TRUE

\* line 105: the condition of the request loop, on the value loaded from finished
LoopCondition(f) == ~f

\* line 105: load finished; then either start the next lookup (lines 106-107)
\* or leave the loop and, line 125, informer_finished_parent.store(true)
CheckFinished(w) ==
    /\ wpc[w] = "loop"
    /\ IF LoopCondition(finished)
       THEN /\ lookups < LookupBudget(cpus)
            /\ lookups' = lookups + 1
            /\ wpc' = [wpc EXCEPT ![w] = "lookup"]
            /\ UNCHANGED informer_finished
       ELSE /\ wpc' = [wpc EXCEPT ![w] = "join"]
            /\ informer_finished' = [informer_finished EXCEPT ![w] = TRUE]
            /\ UNCHANGED lookups
    /\ UNCHANGED <<inputVars, coordVars, sharedVars, details, details_lock,
                   informerVars, aggVars, histVars>>

\* the lock as it would be if details were shared without a mutex
DetailsUnguarded(w) == TRUE

\* line 114 and line 120: details.lock() returns only while nobody holds the mutex
DetailsFree(w) == details_lock[w] = "none"

\* lines 107-118: resolver.lookup(..) returns Ok; with the details mutex held,
\* count the success and fold the elapsed time in; the guard is dropped at the
\* end of the block
LookupOk(w) ==
    /\ wpc[w] = "lookup"
    /\ DetailsFree(w)
    /\ \E current \in {0, MaxNanos} :
          details' = [details EXCEPT ![w] =
                        [successes |-> @.successes + 1,
                         failures |-> @.failures,
                         duration |-> (current + @.duration) \div 2]]
    /\ completed' = [completed EXCEPT ![w] = @ + 1]
    /\ wpc' = [wpc EXCEPT ![w] = "loop"]
    /\ UNCHANGED <<inputVars, coordVars, sharedVars, lookups, details_lock,
                   informer_finished, informerVars, aggVars, final_sends, sampled,
                   sent, merged, received>>

\* the else branch as it would be if a failure were also folded into duration
CountFailureAndFold(d) == [d EXCEPT !.failures = @ + 1, !.duration = @ \div 2]

\* line 121: writer.failures += 1
CountFailure(d) == [d EXCEPT !.failures = @ + 1]

\* lines 107-113, 119-122: resolver.lookup(..) returns Err; with the details
\* mutex held, count the failure; the guard is dropped at the end of the block
LookupErr(w) ==
    /\ wpc[w] = "lookup"
    /\ DetailsFree(w)
    /\ details' = [details EXCEPT ![w] = CountFailure(@)]
    /\ completed' = [completed EXCEPT ![w] = @ + 1]
    /\ wpc' = [wpc EXCEPT ![w] = "loop"]
    /\ UNCHANGED <<inputVars, coordVars, sharedVars, lookups, details_lock,
                   informer_finished, informerVars, aggVars, final_sends, sampled,
                   sent, merged, received>>

\* the join as it would be if the worker did not wait for its informer
InformerDetached(w) == TRUE

\* line 126: informer.join() returns only when the informer's closure has ended
InformerEnded(w) == ipc[w] = "done"

\* lines 126-127: informer.join() returns once the informer ended; the function
\* then returns without sending on qc.informer_sender (final_sends is untouched)
\* and drops qc and details
JoinInformer(w) ==
    /\ wpc[w] = "join"
    /\ InformerEnded(w)
    /\ wpc' = [wpc EXCEPT ![w] = "done"]
    /\ UNCHANGED <<inputVars, coordVars, sharedVars, lookups, details, details_lock,
                   informer_finished, informerVars, aggVars, histVars>>

Worker(w) ==
    \/ NewResolver(w) \/ SignalReady(w) \/ PassBarrier(w) \/ CheckFinished(w)
    \/ LookupOk(w) \/ LookupErr(w) \/ JoinInformer(w)

\* -------------------------------------- perform_queries: the informer thread
\* line 94: load the stop flag; go to sleep (line 95) or end the thread
InformerCheck(w) ==
    /\ ipc[w] = "check"
    /\ IF ~informer_finished[w]
       THEN /\ ticks < TickBudget(cpus)
            /\ ticks' = ticks + 1
            /\ ipc' = [ipc EXCEPT ![w] = "sleep"]
       ELSE /\ ipc' = [ipc EXCEPT ![w] = "done"]
            /\ UNCHANGED ticks
    /\ UNCHANGED <<inputVars, coordVars, sharedVars, workerVars, aggVars, histVars>>

\* lines 95-97: the sleep returns; informer_details.lock(); then
\* informer_sender.send(details.clone()).  The channel is unbounded and its
\* receiver lives until every sender is gone, so the send succeeds.
InformerSend(w) ==
    /\ ipc[w] = "sleep"
    /\ DetailsFree(w)
    /\ details_lock' = [details_lock EXCEPT ![w] = "informer"]
    /\ inf_ch' = Append(inf_ch, details[w])
    /\ sent' = sent + 1
    /\ sampled' = [sampled EXCEPT ![w] = @ + Total(details[w])]
    /\ ipc' = [ipc EXCEPT ![w] = "reset"]
    /\ UNCHANGED <<inputVars, coordVars, init_ch, lock, finished, main_inf_s, res_ch,
                   wpc, lookups, details, informer_finished, ticks, aggVars,
                   completed, final_sends, merged, received>>

\* lines 98-99: details.reset(), and the guard is dropped at the end of the body
InformerReset(w) ==
    /\ ipc[w] = "reset"
    /\ details' = [details EXCEPT ![w] = Reset(@)]
    /\ details_lock' = [details_lock EXCEPT ![w] = "none"]
    /\ ipc' = [ipc EXCEPT ![w] = "check"]
    /\ UNCHANGED <<inputVars, coordVars, sharedVars, wpc, lookups, informer_finished,
                   ticks, aggVars, histVars>>

Informer(w) == InformerCheck(w) \/ InformerSend(w) \/ InformerReset(w)

\* ------------------------------------------- main: the aggregating informer
\* Sender<RunDetails> clones alive: main's inf_s, each running worker's
\* qc.informer_sender, each running informer's informer_sender
SendersAlive ==
    \/ main_inf_s
    \/ \E w \in Slots : wpc[w] \notin {"unspawned", "panicked", "done"}
    \/ \E w \in Slots : ipc[w] \notin {"unspawned", "done"}

\* the end of the stream as it would be if an empty queue ended the loop
DisconnectedWhenEmpty == inf_ch = <<>>

\* line 196: inf_r.recv() is Err once the queue is empty and no sender is left
Disconnected == inf_ch = <<>> /\ ~SendersAlive

\* the condition as it would be with >= in place of >
FlushDueAtOne(t) == t - start >= 1

\* line 200: Instant::now().duration_since(start).as_secs() > 1, for the clock
\* reading t
FlushDue(t) == t - start > 1

\* the flush as it would be if line 210 restarted totals
FlushRestartsTotals(acc) == Default

\* lines 201-210 assign start and temp_total and leave totals as it is
FlushKeepsTotals(acc) == acc

\* the later of two clock readings
Later(a, b) == IF a >= b THEN a ELSE b

\* lines 196-211: receive one sample and merge it into both accumulators; then
\* read the clock (t: any time from the last reading on) and, when the whole
\* seconds since start exceed 1, print the rolling bucket and restart it, with
\* start read from the clock again (u: t or later)
AggregatorRecv ==
    /\ apc = "recv"
    /\ inf_ch # <<>>
    /\ inf_ch' = Tail(inf_ch)
    /\ merged' = merged + 1
    /\ received' = Append(received, Head(inf_ch))
    /\ \E t \in Later(now, start)..ClockBudget(cpus) :
          /\ now' = t
          /\ IF FlushDue(t)
             THEN /\ totals' = FlushKeepsTotals(AddAssign(totals, Head(inf_ch)))
                  /\ flushes' = flushes + 1
                  /\ \E u \in t..ClockBudget(cpus) : start' = u
                  /\ temp_total' = Default
             ELSE /\ totals' = AddAssign(totals, Head(inf_ch))
                  /\ temp_total' = AddAssign(temp_total, Head(inf_ch))
                  /\ UNCHANGED <<flushes, start>>
    /\ UNCHANGED <<inputVars, coordVars, init_ch, lock, finished, main_inf_s, res_ch,
                   workerVars, informerVars, apc, completed, final_sends, sampled,
                   sent>>

\* line 196: the loop ends on Err
AggregatorDisconnected ==
    /\ apc = "recv"
    /\ Disconnected
    /\ apc' = "send"
    /\ UNCHANGED <<inputVars, coordVars, sharedVars, workerVars, informerVars, totals,
                   temp_total, start, now, flushes, histVars>>

\* line 214: s.send(totals) on the sync_channel of capacity cpus (line 166); with
\* capacity 0 the send is a rendezvous and returns only when main is receiving
AggregatorSend ==
    /\ apc = "send"
    /\ IF cpus = 0 THEN cpc = "recv" ELSE Len(res_ch) < cpus
    /\ res_ch' = Append(res_ch, totals)
    /\ apc' = "done"
    /\ UNCHANGED <<inputVars, coordVars, init_ch, lock, finished, main_inf_s, inf_ch,
                   workerVars, informerVars, totals, temp_total, start, now, flushes,
                   histVars>>

Aggregator == AggregatorRecv \/ AggregatorDisconnected \/ AggregatorSend

\* ------------------------------------------------------------ specification
Next ==
    \/ Main
    \/ \E w \in Slots : Worker(w)
    \/ \E w \in Slots : Informer(w)
    \/ Aggregator

Spec == Init /\ [][Next]_vars

\* every thread that can take a step eventually takes one
FairSpec ==
    /\ Spec
    /\ WF_vars(Main)
    /\ \A w \in Slots : WF_vars(Worker(w))
    /\ \A w \in Slots : WF_vars(Informer(w))
    /\ WF_vars(Aggregator)

\* ------------------------------------------ the aggregator on a backlog
\* What an informer sends for a tick in which its worker recorded nothing, one
\* failure, one success that took no time, or one slow success
OneFailure == [successes |-> 0, failures |-> 1, duration |-> 0]
FastSuccess == [successes |-> 1, failures |-> 0, duration |-> 0]
SlowSuccess == [successes |-> 1, failures |-> 0, duration |-> MaxLatency]
SampleSet == {Default, OneFailure, FastSuccess, SlowSuccess}

SeqsUpTo(S, n) == UNION {[1..k -> S] : k \in 0..n}

RECURSIVE SumTotal(_)
SumTotal(q) == IF q = <<>> THEN 0 ELSE Total(Head(q)) + SumTotal(Tail(q))

\* A run of one worker in which the aggregating informer thread, spawned on
\* line 192, is scheduled for the first time after main's drop(inf_s) on line
\* 226: the worker and its informer have ended, every sample sent is still in
\* the channel, and main is in informer.join() on line 227.
AggInit ==
    /\ cpus = 1
    /\ time_secs = MaxTimeSecs
    /\ cpc = "joinagg"
    /\ spawned = 1
    /\ ready = 1
    /\ joined = 1
    /\ init_ch = 0
    /\ lock = "free"
    /\ finished = TRUE
    /\ main_inf_s = FALSE
    /\ wpc = [w \in Slots |-> IF w = 1 THEN "done" ELSE "unspawned"]
    /\ inf_ch \in SeqsUpTo(SampleSet, MaxSamples)
    /\ lookups = SumTotal(inf_ch)
    /\ details = [w \in Slots |-> Default]
    /\ details_lock = [w \in Slots |-> "none"]
    /\ informer_finished = [w \in Slots |-> w = 1]
    /\ ipc = [w \in Slots |-> IF w = 1 THEN "done" ELSE "unspawned"]
    /\ ticks = Len(inf_ch)
    /\ apc = "recv"
    /\ totals = Default
    /\ temp_total = Default
    /\ start = 0
    /\ now = 0
    /\ flushes = 0
    /\ res_ch = <<>>
    /\ overall = Default
    /\ report = NoReport
    /\ completed = [w \in Slots |-> IF w = 1 THEN SumTotal(inf_ch) ELSE 0]
    /\ final_sends = [w \in Slots |-> 0]
    /\ sampled = [w \in Slots |-> IF w = 1 THEN SumTotal(inf_ch) ELSE 0]
    /\ sent = Len(inf_ch)
    /\ merged = 0
    /\ received = <<>>

\* the threads still running from there: the aggregator and main
AggNext == Aggregator \/ JoinAggregator \/ RecvTotals \/ Report

AggSpec == AggInit /\ [][AggNext]_vars

\* ------------------------------------------------------------- properties
RECURSIVE SumTo(_, _)
SumTo(f, n) == IF n = 0 THEN 0 ELSE f[n] + SumTo(f, n - 1)

\* main has received the totals (line 229 is behind it)
TotalsRead == cpc \in {"report", "done", "panicked"}

\* the worker is inside its request loop or behind it
PastBarrier(w) == wpc[w] \in {"loop", "lookup", "join", "done"}

\* the worker has left its request loop
LeftLoop(w) == wpc[w] \in {"join", "done"}

InitFailed == \E w \in Slots : wpc[w] = "panicked"

\* C1: with cpus >= 1 and time_secs >= 1, the successes + failures main reads
\* as the final summary equal the number of lookups that returned, over all
\* workers.
FinalCountsEveryLookup ==
    (cpus >= 1 /\ time_secs >= 1 /\ TotalsRead)
        => Total(overall) = SumTo(completed, MaxCpus)

\* C2: a worker is in its request loop, or behind it, only when every one of the
\* cpus workers has sent its ready signal and main has dropped the guard mg.
NoLookupBeforeRelease ==
    \A w \in Slots :
        PastBarrier(w) =>
            /\ \A v \in 1..cpus : wpc[v] \notin {"unspawned", "resolver", "init_done",
                                                 "panicked"}
            /\ ready = cpus
            /\ cpc \notin {"lock", "spawn", "await", "release"}
            /\ lock = "free"

\* C2 witness: both workers of a two-worker run are past the barrier, one of
\* them in a lookup
BothWorkersPastBarrier == cpus = 2 /\ wpc[1] = "lookup" /\ wpc[2] = "loop"

\* C3: no worker begins a lookup in a state where finished is set, so the only
\* lookup of a worker that can return after the store is the one begun before
\* it; a lookup in flight ends only by returning and being recorded, then the
\* worker is back at the loop condition; a worker at the loop condition with
\* finished set leaves the loop in its next step, and a worker that has left
\* the loop never goes back into it.
StopsWithinOneLookup ==
    [][\A w \in Slots :
          /\ (wpc[w] # "lookup" /\ wpc'[w] = "lookup") => (~finished /\ wpc[w] = "loop")
          /\ (wpc[w] = "lookup" /\ wpc'[w] # "lookup")
                => (wpc'[w] = "loop" /\ completed'[w] = completed[w] + 1
                    /\ Total(details'[w]) = Total(details[w]) + 1)
          /\ (wpc[w] = "loop" /\ finished /\ wpc'[w] # "loop") => wpc'[w] = "join"
          /\ LeftLoop(w) => LeftLoop(w)']_vars

\* C3 witness: finished is set while a lookup is in flight
StoredDuringLookup == \E w \in Slots : finished /\ wpc[w] = "lookup"

\* C4: a worker that has ended has sent its final RunDetails exactly once.
FinalResultSentOnce == \A w \in Slots : wpc[w] = "done" => final_sends[w] = 1

\* C5: when main has received the totals, every worker and informer has ended,
\* the sample channel is disconnected and empty, the aggregator has ended, and
\* the value received is the aggregator's totals, into which every sample sent
\* was merged once.
TotalsReadAfterAggregation ==
    TotalsRead =>
        /\ \A w \in 1..cpus : wpc[w] = "done" /\ ipc[w] = "done"
        /\ apc = "done"
        /\ inf_ch = <<>>
        /\ ~SendersAlive
        /\ overall = totals
        /\ merged = sent
        /\ Total(overall) = SumTo(sampled, MaxCpus)

\* C5 witness: main has received totals that hold a sample with a lookup in it
TotalsReadWithSample == cpc = "report" /\ cpus = 2 /\ sent >= 1 /\ Total(overall) >= 1

\* C6: once a worker has failed in its initialization, main leaves the wait
\* for the ready signals (by a timeout or an abort).
NoHangOnInitFailure == InitFailed ~> (cpc \notin {"spawn", "await"})

\* C7: when the summary holds no lookup at all (and time_secs >= 1), the
\* report does not compute the success rate 0 / 0.
ZeroTotalIsReportedError ==
    (time_secs >= 1 /\ cpc = "done" /\ Total(overall) = 0) => ~report.rate_nan

\* C8: with time_secs = 0 main does not panic in the division by time_secs and
\* writes no line of the report.
ZeroDurationIsReportedError ==
    time_secs = 0 => (cpc # "panicked" /\ report.lines = 0)

\* C9: with cpus >= 1 (and time_secs >= 1), every lookup returning and every
\* thread scheduled fairly, main reaches the end of main().
RunTerminates == (cpus >= 1 /\ time_secs >= 1) => <>(cpc = "done")

\* C10: finished is false at first; the only step that changes it is main's
\* store after the barrier was released and the sleep returned, and it sets
\* it; nothing resets it.
TerminationSignalSetOnce ==
    /\ ~finished
    /\ [][/\ finished => finished'
          /\ (~finished /\ finished')
                => /\ cpc = "sleep" /\ cpc' = "join"
                   /\ lock = "free"
                   /\ UNCHANGED <<wpc, ipc, apc>>]_vars

\* C10 witness: the run is over and finished is still set
FinishedStaysSet == finished /\ cpc = "done" /\ cpus = 2

\* C11: for every worker, the lookups it has recorded are those in the
\* snapshots its informer has sent plus those in its details now.  While the
\* informer holds the details mutex between its send and its reset (the only
\* states in which the snapshot just sent is still in details), the worker
\* cannot record, and the details hold nothing that is not in a snapshot.
SnapshotsPartitionLookups ==
    \A w \in Slots :
        /\ (ipc[w] = "reset") = (details_lock[w] = "informer")
        /\ ipc[w] = "reset" => sampled[w] = completed[w]
        /\ ipc[w] # "reset" => sampled[w] + Total(details[w]) = completed[w]

\* C11 witness: a worker recorded a lookup, its informer sent and reset it, the
\* worker recorded another one and the informer has sent that one as well
TwoSnapshotsOneLookupEach ==
    \E w \in Slots :
        /\ completed[w] = 2 /\ sampled[w] = 2 /\ sent = 2
        /\ \A i \in 1..Len(received) : Total(received[i]) = 1
        /\ Len(received) = 2

\* the loop on lines 196-197 run over the samples q, from the accumulator acc
RECURSIVE Fold(_, _)
Fold(acc, q) == IF q = <<>> THEN acc ELSE Fold(AddAssign(acc, Head(q)), Tail(q))

RECURSIVE SumSuccesses(_)
SumSuccesses(q) == IF q = <<>> THEN 0 ELSE Head(q).successes + SumSuccesses(Tail(q))

RECURSIVE SumFailures(_)
SumFailures(q) == IF q = <<>> THEN 0 ELSE Head(q).failures + SumFailures(Tail(q))

\* C12: a += b and b += a give the same RunDetails, for the accumulators the
\* aggregator reaches and every sample, and for every two samples; the counts
\* in totals are the sums of the counts received, whatever their order; and the
\* duration in totals depends on the order: after a slow then a fast sample it
\* is not what the fold of the fast then the slow one gives, and the other way
\* round.
MergeCommutesFoldDoesNot ==
    /\ \A b \in SampleSet :
          /\ AddAssign(totals, b) = AddAssign(b, totals)
          /\ AddAssign(temp_total, b) = AddAssign(b, temp_total)
          /\ \A a \in SampleSet : AddAssign(a, b) = AddAssign(b, a)
    /\ totals.successes = SumSuccesses(received)
    /\ totals.failures = SumFailures(received)
    /\ received = <<SlowSuccess, FastSuccess>>
          => totals.duration # Fold(Default, <<FastSuccess, SlowSuccess>>).duration
    /\ received = <<FastSuccess, SlowSuccess>>
          => totals.duration # Fold(Default, <<SlowSuccess, FastSuccess>>).duration

\* C12 witness: the aggregator has merged a slow and then a fast success, and a
\* third sample is still to come
SlowThenFastMerged ==
    /\ received = <<SlowSuccess, FastSuccess>>
    /\ totals = AddAssign(AddAssign(Default, SlowSuccess), FastSuccess)
    /\ totals.successes = 2
    /\ inf_ch # <<>>

\* C13: the step that ends a worker's lookup changes its details in exactly one
\* of two ways: successes + 1, failures unchanged and duration (elapsed +
\* previous duration) / 2 for a fast or a slow lookup, or failures + 1 with
\* successes and duration unchanged.  No other step of the worker thread
\* changes its details (after their creation), and successes or failures
\* decrease only in the informer's reset.
LookupChangesDetailsOneWay ==
    [][\A w \in Slots :
          LET d == details[w]
              e == details'[w]
              ok == /\ e.successes = d.successes + 1
                    /\ e.failures = d.failures
                    /\ \E current \in {0, MaxNanos} :
                          e.duration = (current + d.duration) \div 2
              err == /\ e.failures = d.failures + 1
                     /\ e.successes = d.successes
                     /\ e.duration = d.duration
          IN  /\ (wpc[w] = "lookup" /\ wpc'[w] # "lookup") => (ok # err)
              /\ (e # d /\ wpc[w] # "resolver")
                    => \/ wpc[w] = "lookup" /\ wpc'[w] = "loop"
                       \/ ipc[w] = "reset" /\ ipc'[w] = "check" /\ e = Default
              /\ (e.successes < d.successes \/ e.failures < d.failures)
                    => (ipc[w] = "reset" /\ ipc'[w] = "check")]_vars

\* C13 witness: with no reset in between, a worker recorded a slow success and
\* a failure, and the duration is what the success alone gives
SlowSuccessThenFailure ==
    \E w \in Slots :
        /\ sampled[w] = 0 /\ ipc[w] = "check"
        /\ details[w] = [successes |-> 1, failures |-> 1,
                         duration |-> MaxNanos \div 2]
        /\ MaxNanos \div 2 > 0

\* C14: totals is the fold of the samples received, in their order, whatever
\* the clock read and however often the rolling bucket was printed and
\* restarted; what main reads and reports is that fold over all samples sent.
GrandTotalIgnoresFlushes ==
    /\ totals = Fold(Default, received)
    /\ TotalsRead => (merged = sent /\ overall = Fold(Default, received))
    /\ cpc = "done"
          => /\ report.rate = Rate(Fold(Default, received))
             /\ report.requests = Fold(Default, received).successes \div time_secs

\* C14 witness: a run that restarted the bucket at least once has reported a
\* full backlog, with a duration in the totals that the bucket does not hold
ReportedAfterFlush ==
    /\ cpc = "done"
    /\ flushes >= 1
    /\ Len(received) = MaxSamples
    /\ overall.duration > 0
    /\ overall.successes >= 2
    /\ temp_total # overall

\* C15: every sample received makes the aggregator read the clock once, and it
\* flushes, once, exactly when the whole seconds since start exceed 1; a flush
\* writes one progress line, empties the bucket and sets start to the time of
\* the flush, and a step without a flush leaves start alone and merges the
\* sample into the bucket; nothing else touches the three.  So after every
\* iteration the bucket is no older than 1 second by the aggregator's own
\* readings, and the next flush is more than a second after this one.
FlushWhenOverOneSecond ==
    /\ [](now - start <= 1)
    /\ [][/\ merged' = merged + 1
             => /\ now' >= now /\ now' >= start
                /\ (now' - start > 1) = (flushes' = flushes + 1)
                /\ flushes' \in {flushes, flushes + 1}
                /\ flushes' = flushes + 1
                      => (temp_total' = Default /\ start' >= now')
                /\ flushes' = flushes
                      => /\ start' = start
                         /\ temp_total' = AddAssign(temp_total, Head(inf_ch))
          /\ merged' = merged => UNCHANGED <<flushes, start, temp_total>>]_vars

\* C15 witness: three samples were received and two of them flushed the
\* bucket, the last one at its reading 4 of the clock
FlushedTwice ==
    /\ flushes = 2
    /\ merged = 3
    /\ received[3] = SlowSuccess
    /\ temp_total = Default
    /\ now = 4 /\ start = 4

\* main is behind its join loop: every handle was joined
WorkersJoined == (cpc = "join" /\ joined = cpus) \/ cpc \in {"joinagg", "recv", "report",
                                                             "done", "panicked"}

\* C16: a worker's stop flag changes only in that worker's step out of its
\* request loop, which sets it, and it stays set.  With the flag set the
\* informer begins no further iteration: it sends only out of a sleep begun
\* before, so at most once more, and from its loop condition it only ends.  A
\* worker ends only when its informer has ended, so once main has joined every
\* worker, every informer has ended and nothing more is sent.
StopFlagEndsSampler ==
    /\ [](WorkersJoined => \A w \in 1..cpus : wpc[w] = "done" /\ ipc[w] = "done")
    /\ [][/\ \A w \in Slots :
               /\ informer_finished'[w] # informer_finished[w]
                     => /\ informer_finished'[w]
                        /\ wpc[w] = "loop" /\ wpc'[w] = "join"
                        /\ finished
               /\ (informer_finished[w] /\ ipc'[w] = "sleep") => ipc[w] = "sleep"
               /\ (ipc[w] # "reset" /\ ipc'[w] = "reset")
                     => (ipc[w] = "sleep" /\ sent' = sent + 1)
               /\ (informer_finished[w] /\ ipc[w] = "check" /\ ipc'[w] # "check")
                     => ipc'[w] = "done"
               /\ ipc[w] = "done" => ipc'[w] = "done"
               /\ (wpc[w] # "done" /\ wpc'[w] = "done") => ipc[w] = "done"
          /\ sent' # sent => \E w \in Slots : ipc[w] = "sleep" /\ ipc'[w] = "reset"
          /\ WorkersJoined => sent' = sent]_vars

\* C16 witness: an informer that was asleep when its worker set the flag has
\* sent one more snapshot, with a lookup in it
SnapshotAfterStop ==
    \E w \in Slots :
        /\ informer_finished[w] /\ wpc[w] = "join"
        /\ ipc[w] = "reset" /\ Total(details[w]) = 1

\* the workers that are behind their send on line 102
Signalled == {w \in Slots : wpc[w] \in {"barrier", "loop", "lookup", "join", "done"}}

\* C17: the ready signals sent (those buffered and those main has received)
\* are one for each worker that is at the barrier or behind it, and none for
\* any other worker (a worker whose Resolver::new failed sends none); the
\* channel never holds more than cpus of them and a worker about to send finds
\* room; and main is behind its wait, at the release of the barrier or later,
\* only when it has received cpus signals, which then are those of the cpus
\* workers, with none left in the channel.
OneReadySignalPerWorker ==
    /\ init_ch + ready = Cardinality(Signalled)
    /\ init_ch <= cpus
    /\ \A w \in Slots : wpc[w] = "init_done" => init_ch < cpus
    /\ cpc \notin {"lock", "spawn", "await"}
          => (ready = cpus /\ init_ch = 0 /\ Signalled = 1..cpus)
    /\ (lock = "free" /\ cpc # "lock") => ready = cpus

\* C17 witness: the two workers of a run have both sent before main received
\* anything: the channel is full and both are blocked at the barrier
ReadyChannelFull ==
    /\ cpus = 2 /\ init_ch = 2 /\ ready = 0
    /\ wpc[1] = "barrier" /\ wpc[2] = "barrier"
    /\ lock = "main"

\* C18: whenever the aggregator is at its send of the totals, the send can
\* complete there and then, also while main is in informer.join() and so not
\* receiving; this for every cpus, 0 included.
HandOffNeverBlocks == apc = "send" => ENABLED AggregatorSend

====
